---- MODULE Spec2Model ----
(***************************************************************************)
(* Model of pymongo/client_session.py: the server-session pool             *)
(* (_ServerSessionPool, a deque of _ServerSession), the staleness          *)
(* predicate of _ServerSession, and the ClientSession handle life cycle.   *)
(*                                                                         *)
(* A _ServerSession is represented by a record number 1..MaxRecords; its   *)
(* session_id is the document [id |-> number] (uuid4 never collides) and   *)
(* its last_use is last_use[number].  The monotonic clock is the variable  *)
(* now, in seconds.  Every handler runs to completion as one action and    *)
(* reads the clock once (the handlers make no blocking call).              *)
(***************************************************************************)
EXTENDS Integers, Sequences, FiniteSets, TLC

\* ------------------------------------------------------------------ bounds
MaxRecords == 4          \* at most this many _ServerSession objects are minted
NumHandles == 2          \* ClientSession objects that may be constructed
MaxTicks == 1            \* the clock advances at most this many times
TickSeconds == 60        \* seconds the clock advances in one step
MaxReturnCalls == 2      \* cap on counted _return_server_session calls per handle

\* ------------------------------------------------------- program constants
SecondsPerMinute == 60   \* the factor 60 in _ServerSession.timed_out

None == 0                \* the absent reference (record and handle numbers start at 1)
NoValue == "NoValue"     \* an operation that returns nothing, raises nothing
InvalidOperation == "InvalidOperation"
TheClient == "MongoClient"
TheAuthset == "authset"

Records == 1..MaxRecords
Handles == 1..NumHandles
\* session_timeout_minutes values handed to the pool by the collaborator
Timeouts == {0, 1, 2}

VARIABLES
    now,              \* monotonic.time()
    nextId,           \* number of the next _ServerSession to be minted
    last_use,         \* _ServerSession.last_use, per record
    pool,             \* the _ServerSessionPool deque, index 1 = left end
    constructed,      \* per handle: ClientSession.__init__ has run
    _client,          \* ClientSession._client
    _server_session,  \* ClientSession._server_session (None once ended)
    _options,         \* ClientSession._options (its causally_consistent_reads)
    _authset,         \* ClientSession._authset
    checkedOut,       \* records returned by get_server_session, not yet given back
    returnCalls,      \* per handle: calls of client._return_server_session it made
    byReturn,         \* the records in the pool, most recently returned first
    scope,            \* per handle: its with-block ("none", "entered", "exited")
    th,               \* the frame of the operation that holds the lock
    lastOp            \* the operation just performed, its arguments and outcome

vars == <<now, nextId, last_use, pool, constructed, _client, _server_session,
          _options, _authset, checkedOut, returnCalls, byReturn, scope, th,
          lastOp>>

frame == <<scope, th>>

\* No operation holds the lock.
IdleFrame ==
    [pc |-> "idle", kind |-> "none", T |-> 0, s |-> None, back |-> None,
     stale |-> FALSE]

handleVars == <<constructed, _client, _server_session, _options, _authset>>

Range(q) == {q[i] : i \in 1..Len(q)}

\* The response of an operation, as its caller observes it, and for a pool
\* operation what it did to the pool: whether the session it returned was
\* newly created, how many sessions it discarded, the left end it found.
\* lock is the flag an end handed to client._return_server_session, exc the
\* exception a with-block was left by.
PoolOp(name, h, T, s, ret, minted, dropped, front) ==
    [op |-> name, h |-> h, T |-> T, s |-> s, ret |-> ret, raised |-> NoValue,
     minted |-> minted, dropped |-> dropped, front |-> front,
     lock |-> FALSE, exc |-> NoValue]

Op(name, h, T, s, ret, raised) ==
    [op |-> name, h |-> h, T |-> T, s |-> s, ret |-> ret, raised |-> raised,
     minted |-> FALSE, dropped |-> 0, front |-> None,
     lock |-> FALSE, exc |-> NoValue]

\* Sessions of pool q that are neither in q2 nor the session handed out.
Dropped(q, q2, out) == Cardinality(Range(q) \ (Range(q2) \cup {out}))

Front(q) == IF q = <<>> THEN None ELSE q[1]

\* The order of return after a step that leaves pool q2 and gave back s
\* (None when the step gave nothing back).
ByReturn(q2, s) ==
    (IF s # None /\ s \in Range(q2) THEN <<s>> ELSE <<>>)
    \o SelectSeq(byReturn, LAMBDA r : r \in Range(q2) /\ r # s)

\* --------------------------------------------------------- _ServerSession
session_id(s) == [id |-> s]

\* _ServerSession.timed_out: idle_seconds > (session_timeout_minutes - 1) * 60
\* Faulty variant: timed out already at the threshold.
timed_out_at_threshold(s, T) == (now - last_use[s]) >= (T - 1) * SecondsPerMinute
timed_out(s, T) == (now - last_use[s]) > (T - 1) * SecondsPerMinute

\* Faulty variant: the new session's last_use is left at the clock's origin.
ServerSession__init___epoch(s) == [last_use EXCEPT ![s] = 0]

\* _ServerSession.__init__: record s comes to exist with last_use = now
ServerSession__init__(s) == [last_use EXCEPT ![s] = now]

\* Faulty variant: last_use is set back to the clock's origin.
use_lsid_epoch(s) ==
    [last_use |-> [last_use EXCEPT ![s] = 0], ret |-> session_id(s)]

\* Faulty variant: the session_id is returned without refreshing last_use.
use_lsid_norefresh(s) == [last_use |-> last_use, ret |-> session_id(s)]

\* _ServerSession.use_lsid: refresh last_use, return the session_id
use_lsid(s) ==
    [last_use |-> [last_use EXCEPT ![s] = now], ret |-> session_id(s)]

\* ------------------------------------------------------ collections.deque
\* Faulty variant: append on the right.
appendleft_right(q, s) == Append(q, s)
appendleft(q, s) == <<s>> \o q

popleft(q) == Tail(q)

\* Faulty variant: removes the left end.
pop_front(q) == Tail(q)

pop(q) == SubSeq(q, 1, Len(q) - 1)

\* ----------------------------------------------------- _ServerSessionPool
\* _clear_stale: drop timed-out sessions from the right end, stop at the
\* first one that has not timed out.
\* Faulty variant: once the right end has timed out the deque is cleared.
_clear_stale_all(q, T) ==
    IF q # <<>> /\ timed_out(q[Len(q)], T) THEN <<>> ELSE q

RECURSIVE _clear_stale(_, _)
_clear_stale(q, T) ==
    IF q = <<>> THEN q
    ELSE IF timed_out(q[Len(q)], T) THEN _clear_stale(pop(q), T)
    ELSE q

\* The loop of get_server_session: popleft until a session that has not
\* timed out is found; s = None when the deque ran empty.
RECURSIVE PopLoop(_, _)
PopLoop(q, T) ==
    IF q = <<>> THEN [pool |-> q, s |-> None]
    ELSE LET s == q[1]
             rest == popleft(q)
         IN IF ~timed_out(s, T) THEN [pool |-> rest, s |-> s]
            ELSE PopLoop(rest, T)

\* Faulty variant: the session found is returned but left in the deque.
get_server_session_peek(q, T) ==
    [pool |-> _clear_stale(q, T), s |-> PopLoop(_clear_stale(q, T), T).s]

\* Faulty variant: the left end is returned without the timed_out test.
get_server_session_front(q, T) ==
    LET c == _clear_stale(q, T)
    IN IF c = <<>> THEN [pool |-> c, s |-> None]
       ELSE [pool |-> popleft(c), s |-> c[1]]

\* Faulty variant: no _clear_stale before the loop.
get_server_session_nosweep(q, T) == PopLoop(q, T)

get_server_session(q, T) == PopLoop(_clear_stale(q, T), T)

\* Faulty variant: the returned session is inserted without the timed_out test.
return_server_session_always(q, s, T) == appendleft(_clear_stale(q, T), s)

return_server_session(q, s, T) ==
    LET c == _clear_stale(q, T)
    IN IF ~timed_out(s, T) THEN appendleft(c, s) ELSE c

\* Faulty variant: the lock-free path sweeps like the locked one.
return_server_session_no_lock_sweep(q, s) == appendleft(_clear_stale(q, 1), s)
return_server_session_no_lock(q, s) == appendleft(q, s)

\* MongoClient._return_server_session(server_session, lock): the locked
\* release path with the deployment's session timeout, or the lock-free one.
_return_server_session(q, s, lock, T) ==
    IF lock THEN return_server_session(q, s, T)
    ELSE return_server_session_no_lock(q, s)

\* ---------------------------------------------------------- ClientSession
\* _end_session(lock): the pool and the handle's reference afterwards, the
\* number of calls of client._return_server_session it made and the lock
\* flag it passed.
\* Faulty variant: the reference is not reset to None.
_end_session_keepref(h, lock, T) ==
    IF _server_session[h] # None
    THEN [pool |-> _return_server_session(pool, _server_session[h], lock, T),
          ss |-> _server_session,
          calls |-> 1, lock |-> lock]
    ELSE [pool |-> pool, ss |-> _server_session, calls |-> 0, lock |-> FALSE]

_end_session(h, lock, T) ==
    IF _server_session[h] # None
    THEN [pool |-> _return_server_session(pool, _server_session[h], lock, T),
          ss |-> [_server_session EXCEPT ![h] = None],
          calls |-> 1, lock |-> lock]
    ELSE [pool |-> pool, ss |-> _server_session, calls |-> 0, lock |-> FALSE]

\* Faulty variant: end_session takes the lock-free path.
end_session_no_lock(h, T) == _end_session(h, FALSE, T)

\* ClientSession.end_session(): self._end_session(True)
end_session(h, T) == _end_session(h, TRUE, T)

\* Faulty variant: __exit__ does not end the session.
__exit___noend(h, T) ==
    [pool |-> pool, ss |-> _server_session, calls |-> 0, lock |-> FALSE,
     ret |-> None]

\* Faulty variant: __exit__ returns True, which swallows the exception.
__exit___swallow(h, T) ==
    [pool |-> end_session(h, T).pool, ss |-> end_session(h, T).ss,
     calls |-> end_session(h, T).calls, lock |-> end_session(h, T).lock,
     ret |-> 1]

\* ClientSession.__exit__: self.end_session(), and None is returned
__exit__(h, T) ==
    [pool |-> end_session(h, T).pool, ss |-> end_session(h, T).ss,
     calls |-> end_session(h, T).calls, lock |-> end_session(h, T).lock,
     ret |-> None]

\* ClientSession.__enter__: return self
__enter__(h) == h

\* Faulty variant: the server session is not stored.
ClientSession__init___nosession(h, client, s, o, authset) ==
    [client |-> [_client EXCEPT ![h] = client],
     ss |-> _server_session,
     options |-> [_options EXCEPT ![h] = o],
     authset |-> [_authset EXCEPT ![h] = authset]]

\* ClientSession.__init__(client, server_session, options, authset)
ClientSession__init__(h, client, s, o, authset) ==
    [client |-> [_client EXCEPT ![h] = client],
     ss |-> [_server_session EXCEPT ![h] = s],
     options |-> [_options EXCEPT ![h] = o],
     authset |-> [_authset EXCEPT ![h] = authset]]

\* Faulty variant: has_ended never reports the end.
has_ended_never(h) == FALSE
has_ended(h) == _server_session[h] = None

\* Records held by some constructed handle.
HeldRecords == {_server_session[h] : h \in {x \in Handles : constructed[x]}} \ {None}

\* A _ServerSession that neither the pool nor a caller references any more is
\* garbage: nothing reads its last_use again, which the model resets.
Collect(lu, q, co) ==
    [s \in Records |-> IF s \in Range(q) \cup co THEN lu[s] ELSE 0]

\* ------------------------------------------------------------------- Init
Init ==
    /\ now = 0
    /\ nextId = 1
    /\ last_use = [s \in Records |-> 0]
    /\ pool = <<>>
    /\ constructed = [h \in Handles |-> FALSE]
    /\ _client = [h \in Handles |-> NoValue]
    /\ _server_session = [h \in Handles |-> None]
    /\ _options = [h \in Handles |-> FALSE]
    /\ _authset = [h \in Handles |-> NoValue]
    /\ checkedOut = {}
    /\ returnCalls = [h \in Handles |-> 0]
    /\ byReturn = <<>>
    /\ scope = [h \in Handles |-> "none"]
    /\ th = IdleFrame
    /\ lastOp = Op("init", None, None, None, NoValue, NoValue)

\* ---------------------------------------------------------------- actions
\* The monotonic clock advances.
Tick ==
    /\ now + TickSeconds <= MaxTicks * TickSeconds
    /\ now' = now + TickSeconds
    /\ lastOp' = Op("tick", None, None, None, NoValue, NoValue)
    /\ UNCHANGED <<nextId, last_use, pool, handleVars, checkedOut, returnCalls, frame, byReturn>>

\* _ServerSessionPool.get_server_session(session_timeout_minutes)
GetServerSession(T) ==
    LET g == get_server_session(pool, T)
    IN /\ pool' = g.pool
       /\ IF g.s # None
          THEN /\ checkedOut' = checkedOut \cup {g.s}
               /\ lastOp' = PoolOp("get_server_session", None, T, None, g.s,
                                   FALSE, Dropped(pool, g.pool, g.s), Front(pool))
               /\ last_use' = Collect(last_use, g.pool, checkedOut \cup {g.s})
               /\ UNCHANGED nextId
          ELSE \* return _ServerSession(): fresh session_id, last_use = now
               /\ nextId <= MaxRecords
               /\ nextId' = nextId + 1
               /\ last_use' = Collect(ServerSession__init__(nextId),
                                       g.pool, checkedOut \cup {nextId})
               /\ checkedOut' = checkedOut \cup {nextId}
               /\ lastOp' = PoolOp("get_server_session", None, T, None, nextId,
                                   TRUE, Dropped(pool, g.pool, None), Front(pool))
       /\ byReturn' = ByReturn(g.pool, None)
       /\ UNCHANGED <<now, handleVars, returnCalls, frame>>

\* _ServerSessionPool.return_server_session, by a caller that holds s itself
ReturnServerSession(s, T) ==
    /\ s \in checkedOut \ HeldRecords
    /\ pool' = return_server_session(pool, s, T)
    /\ checkedOut' = checkedOut \ {s}
    /\ last_use' = Collect(last_use, pool', checkedOut')
    /\ byReturn' = ByReturn(pool', s)
    /\ lastOp' = PoolOp("return_server_session", None, T, s, NoValue,
                        FALSE, Dropped(pool, pool', None), Front(pool))
    /\ UNCHANGED <<now, nextId, handleVars, returnCalls, frame>>

\* _ServerSessionPool.return_server_session_no_lock, by a caller that holds s
ReturnServerSessionNoLock(s) ==
    /\ s \in checkedOut \ HeldRecords
    /\ pool' = return_server_session_no_lock(pool, s)
    /\ checkedOut' = checkedOut \ {s}
    /\ byReturn' = ByReturn(pool', s)
    /\ lastOp' = PoolOp("return_server_session_no_lock", None, None, s, NoValue,
                        FALSE, Dropped(pool, pool', None), Front(pool))
    /\ UNCHANGED <<now, nextId, last_use, handleVars, returnCalls, frame>>

\* MongoClient.start_session: take a session from the pool (minting one
\* when the pool has none to give) and wrap it in a new ClientSession.
StartSession(h, T, o) ==
    LET g == get_server_session(pool, T)
        s == IF g.s # None THEN g.s ELSE nextId
        i == ClientSession__init__(h, TheClient, s, o, TheAuthset)
    IN /\ ~constructed[h]
       /\ \A x \in Handles : x < h => constructed[x]
       /\ s <= MaxRecords
       /\ pool' = g.pool
       /\ nextId' = IF g.s # None THEN nextId ELSE nextId + 1
       /\ checkedOut' = checkedOut \cup {s}
       /\ last_use' = Collect(IF g.s # None THEN last_use
                              ELSE ServerSession__init__(s),
                              g.pool, checkedOut \cup {s})
       /\ constructed' = [constructed EXCEPT ![h] = TRUE]
       /\ _client' = i.client
       /\ _server_session' = i.ss
       /\ _options' = i.options
       /\ _authset' = i.authset
       /\ byReturn' = ByReturn(g.pool, None)
       /\ lastOp' = PoolOp("start_session", h, T, None, s,
                           g.s = None, Dropped(pool, g.pool, g.s), Front(pool))
       /\ UNCHANGED <<now, returnCalls, frame>>

\* An end of handle h with outcome e (of _end_session) applied to the state.
EndApply(name, h, e, T) ==
    /\ constructed[h]
    /\ returnCalls[h] + e.calls <= MaxReturnCalls
    /\ pool' = e.pool
    /\ _server_session' = e.ss
    /\ returnCalls' = [returnCalls EXCEPT ![h] = @ + e.calls]
    /\ checkedOut' = IF e.calls > 0 THEN checkedOut \ {_server_session[h]}
                     ELSE checkedOut
    /\ byReturn' = ByReturn(e.pool, IF e.calls > 0 THEN _server_session[h]
                                     ELSE None)
    /\ last_use' = Collect(last_use, pool', checkedOut')
    /\ UNCHANGED <<now, nextId, constructed, _client, _options, _authset>>

\* The common body of end_session() and of the reclamation-triggered end.
EndWith(name, h, e, T) ==
    /\ EndApply(name, h, e, T)
    /\ lastOp' = [PoolOp(name, h, T, _server_session[h], NoValue, FALSE,
                         Dropped(pool, e.pool, None), Front(pool))
                  EXCEPT !.lock = e.lock]
    /\ UNCHANGED frame

\* ClientSession.end_session(); T is the deployment's session timeout at
\* that moment.
EndSession(h, T) == EndWith("end_session", h, end_session(h, T), T)

\* _end_session(False), from a finalizer.
EndSessionNoLock(h) ==
    EndWith("_end_session_no_lock", h, _end_session(h, FALSE, None), None)

\* ClientSession.client
Client(h) ==
    /\ constructed[h]
    /\ lastOp' = Op("client", h, None, None, _client[h], NoValue)
    /\ UNCHANGED <<now, nextId, last_use, pool, handleVars, checkedOut, returnCalls, frame, byReturn>>

\* ClientSession.options
Options(h) ==
    /\ constructed[h]
    /\ lastOp' = Op("options", h, None, None, _options[h], NoValue)
    /\ UNCHANGED <<now, nextId, last_use, pool, handleVars, checkedOut, returnCalls, frame, byReturn>>

\* ClientSession.session_id
SessionId(h) ==
    /\ constructed[h]
    /\ lastOp' = IF _server_session[h] = None
                 THEN Op("session_id", h, None, None, NoValue, InvalidOperation)
                 ELSE Op("session_id", h, None, None,
                         session_id(_server_session[h]), NoValue)
    /\ UNCHANGED <<now, nextId, last_use, pool, handleVars, checkedOut, returnCalls, frame, byReturn>>

\* ClientSession.has_ended
HasEnded(h) ==
    /\ constructed[h]
    /\ lastOp' = Op("has_ended", h, None, None, has_ended(h), NoValue)
    /\ UNCHANGED <<now, nextId, last_use, pool, handleVars, checkedOut, returnCalls, frame, byReturn>>

\* ClientSession._use_lsid(), delegating to _ServerSession.use_lsid()
UseLsid(h) ==
    /\ constructed[h]
    /\ IF _server_session[h] = None
       THEN /\ lastOp' = Op("_use_lsid", h, None, None, NoValue, InvalidOperation)
            /\ UNCHANGED last_use
       ELSE /\ last_use' = use_lsid(_server_session[h]).last_use
            /\ lastOp' = Op("_use_lsid", h, None, None,
                            use_lsid(_server_session[h]).ret, NoValue)
    /\ UNCHANGED <<now, nextId, pool, handleVars, checkedOut, returnCalls, frame, byReturn>>

\* _ServerSession.use_lsid() on a session its caller holds directly
UseLsidDirect(s) ==
    /\ s \in checkedOut \ HeldRecords
    /\ last_use' = use_lsid(s).last_use
    /\ lastOp' = Op("use_lsid", None, None, s, use_lsid(s).ret, NoValue)
    /\ UNCHANGED <<now, nextId, pool, handleVars, checkedOut, returnCalls, frame, byReturn>>

\* ClientSession.__enter__, on entering a with-block
EnterScope(h) ==
    /\ constructed[h]
    /\ scope[h] = "none"
    /\ scope' = [scope EXCEPT ![h] = "entered"]
    /\ lastOp' = Op("__enter__", h, None, None, __enter__(h), NoValue)
    /\ UNCHANGED <<now, nextId, last_use, pool, handleVars, checkedOut,
                   returnCalls, byReturn, th>>

\* ClientSession.__exit__, on leaving the with-block normally (exc = NoValue)
\* or by exception exc; the exception propagates unless __exit__ returns a
\* true value.
ExitScope(h, T, exc) ==
    LET x == __exit__(h, T)
    IN /\ scope[h] = "entered"
       /\ EndApply("__exit__", h, x, T)
       /\ scope' = [scope EXCEPT ![h] = "exited"]
       /\ lastOp' = [PoolOp("__exit__", h, T, _server_session[h], x.ret, FALSE,
                            Dropped(pool, x.pool, None), Front(pool))
                     EXCEPT !.lock = x.lock,
                            !.exc = exc,
                            !.raised = IF exc # NoValue /\ x.ret = None
                                       THEN exc ELSE NoValue]
       /\ UNCHANGED th

\* The session life cycle: handles created by the client, used, and ended
\* by end_session() or by the finalizer.
Next ==
    \/ Tick
    \/ \E h \in Handles, T \in Timeouts, o \in BOOLEAN : StartSession(h, T, o)
    \/ \E h \in Handles, T \in Timeouts : EndSession(h, T)
    \/ \E h \in Handles : EndSessionNoLock(h)
    \/ \E h \in Handles : Client(h)
    \/ \E h \in Handles : Options(h)
    \/ \E h \in Handles : SessionId(h)
    \/ \E h \in Handles : HasEnded(h)
    \/ \E h \in Handles : UseLsid(h)

Spec == Init /\ [][Next]_vars

\* Sessions used as scoped resources: with client.start_session() as s,
\* the options left at their default.
NextScope ==
    \/ Tick
    \/ \E h \in Handles, T \in Timeouts : StartSession(h, T, FALSE)
    \/ \E h \in Handles : EnterScope(h)
    \/ \E h \in Handles : UseLsid(h)
    \/ \E h \in Handles, T \in Timeouts : EndSession(h, T)
    \/ \E h \in Handles, T \in Timeouts, exc \in {NoValue, "Exception"} :
           ExitScope(h, T, exc)

SpecScope == Init /\ [][NextScope]_vars

\* The pool used directly: sessions taken, used and given back by callers
\* that hold them without a ClientSession.
NextPool ==
    \/ Tick
    \/ \E T \in Timeouts : GetServerSession(T)
    \/ \E s \in Records, T \in Timeouts : ReturnServerSession(s, T)
    \/ \E s \in Records : ReturnServerSessionNoLock(s)
    \/ \E s \in Records : UseLsidDirect(s)

SpecPool == Init /\ [][NextPool]_vars

\* ------------------------------------------- the pool, one deque step at a time
\* A locked get_server_session or return_server_session advances by single
\* deque steps: the emptiness test, the read of the right end, the
\* timed_out call, pop, popleft, appendleft.  th.s is the session the
\* operation has in hand.  Finalizers (ReturnServerSessionNoLock) and the
\* clock run in between.

\* The session the locked operation has in hand, if any.
InFlight == IF th.s = None THEN {} ELSE {th.s}

\* Where control goes when _clear_stale returns.
AfterSweep == IF th.kind = "get" THEN "loop_test" ELSE "ret_timed"

Step(name) == Op(name, None, th.T, th.s, NoValue, NoValue)

\* get_server_session(T) is called and enters _clear_stale.
BeginGet(T) ==
    /\ th.pc = "idle"
    /\ th' = [IdleFrame EXCEPT !.pc = "cs_test", !.kind = "get", !.T = T]
    /\ lastOp' = Op("call", None, T, None, NoValue, NoValue)
    /\ UNCHANGED <<now, nextId, last_use, pool, handleVars, checkedOut,
                   returnCalls, byReturn, scope>>

\* return_server_session(s, T) is called and enters _clear_stale.
BeginReturn(s, T) ==
    /\ th.pc = "idle"
    /\ s \in checkedOut \ HeldRecords
    /\ th' = [IdleFrame EXCEPT !.pc = "cs_test", !.kind = "return", !.T = T,
                               !.s = s]
    /\ checkedOut' = checkedOut \ {s}
    /\ lastOp' = Op("call", None, T, s, NoValue, NoValue)
    /\ UNCHANGED <<now, nextId, last_use, pool, handleVars, returnCalls,
                   byReturn, scope>>

\* _clear_stale: while self
CsTest ==
    /\ th.pc = "cs_test"
    /\ th' = [th EXCEPT !.pc = IF pool = <<>> THEN AfterSweep ELSE "cs_read"]
    /\ lastOp' = Step("while_self")
    /\ UNCHANGED <<now, nextId, last_use, pool, handleVars, checkedOut,
                   returnCalls, byReturn, scope>>

\* _clear_stale: self[-1]
CsRead ==
    /\ th.pc = "cs_read"
    /\ th' = [th EXCEPT !.pc = "cs_timed", !.back = pool[Len(pool)]]
    /\ lastOp' = Step("read_back")
    /\ UNCHANGED <<now, nextId, last_use, pool, handleVars, checkedOut,
                   returnCalls, byReturn, scope>>

\* _clear_stale: .timed_out(session_timeout_minutes), then pop or break
CsTimed ==
    /\ th.pc = "cs_timed"
    /\ th' = [th EXCEPT !.pc = IF timed_out(th.back, th.T) THEN "cs_pop"
                               ELSE AfterSweep,
                        !.stale = timed_out(th.back, th.T),
                        !.back = None]
    /\ lastOp' = Step("timed_out")
    /\ UNCHANGED <<now, nextId, last_use, pool, handleVars, checkedOut,
                   returnCalls, byReturn, scope>>

\* _clear_stale: self.pop()
CsPop ==
    /\ th.pc = "cs_pop"
    /\ pool' = pop(pool)
    /\ th' = [th EXCEPT !.pc = "cs_test", !.stale = FALSE]
    /\ last_use' = Collect(last_use, pool', checkedOut \cup InFlight)
    /\ byReturn' = ByReturn(pool', None)
    /\ lastOp' = Step("pop")
    /\ UNCHANGED <<now, nextId, handleVars, checkedOut, returnCalls, scope>>

\* get_server_session: while self, and return _ServerSession() after it
LoopTest ==
    /\ th.pc = "loop_test"
    /\ IF pool # <<>>
       THEN /\ th' = [th EXCEPT !.pc = "loop_pop"]
            /\ lastOp' = Step("while_self")
            /\ UNCHANGED <<nextId, last_use, checkedOut>>
       ELSE /\ nextId <= MaxRecords
            /\ nextId' = nextId + 1
            /\ last_use' = ServerSession__init__(nextId)
            /\ checkedOut' = checkedOut \cup {nextId}
            /\ th' = IdleFrame
            /\ lastOp' = PoolOp("get_server_session", None, th.T, None, nextId,
                                TRUE, 0, None)
    /\ UNCHANGED <<now, pool, handleVars, returnCalls, byReturn, scope>>

\* get_server_session: s = self.popleft()
LoopPop ==
    /\ th.pc = "loop_pop"
    /\ pool' = popleft(pool)
    /\ th' = [th EXCEPT !.pc = "loop_timed", !.s = pool[1]]
    /\ byReturn' = ByReturn(pool', None)
    /\ lastOp' = Step("popleft")
    /\ UNCHANGED <<now, nextId, last_use, handleVars, checkedOut, returnCalls,
                   scope>>

\* get_server_session: if not s.timed_out(...): return s
LoopTimed ==
    /\ th.pc = "loop_timed"
    /\ IF ~timed_out(th.s, th.T)
       THEN /\ checkedOut' = checkedOut \cup {th.s}
            /\ th' = IdleFrame
            /\ lastOp' = PoolOp("get_server_session", None, th.T, None, th.s,
                                FALSE, 0, None)
            /\ UNCHANGED last_use
       ELSE /\ th' = [th EXCEPT !.pc = "loop_test", !.s = None]
            /\ last_use' = Collect(last_use, pool, checkedOut)
            /\ lastOp' = Step("timed_out")
            /\ UNCHANGED checkedOut
    /\ UNCHANGED <<now, nextId, pool, handleVars, returnCalls, byReturn, scope>>

\* return_server_session: if not server_session.timed_out(...)
RetTimed ==
    /\ th.pc = "ret_timed"
    /\ IF ~timed_out(th.s, th.T)
       THEN /\ th' = [th EXCEPT !.pc = "ret_append"]
            /\ UNCHANGED last_use
       ELSE /\ th' = IdleFrame
            /\ last_use' = Collect(last_use, pool, checkedOut)
    /\ lastOp' = Step("timed_out")
    /\ UNCHANGED <<now, nextId, pool, handleVars, checkedOut, returnCalls,
                   byReturn, scope>>

\* return_server_session: self.appendleft(server_session)
RetAppend ==
    /\ th.pc = "ret_append"
    /\ pool' = appendleft(pool, th.s)
    /\ th' = IdleFrame
    /\ byReturn' = ByReturn(pool', th.s)
    /\ lastOp' = Step("appendleft")
    /\ UNCHANGED <<now, nextId, last_use, handleVars, checkedOut, returnCalls,
                   scope>>

\* One locked operation at a time, finalizers returning sessions lock-free
\* and the clock, interleaved at every deque step.
NextConc ==
    \/ Tick
    \/ \E T \in Timeouts : BeginGet(T)
    \/ \E s \in Records, T \in Timeouts : BeginReturn(s, T)
    \/ CsTest
    \/ CsRead
    \/ CsTimed
    \/ CsPop
    \/ LoopTest
    \/ LoopPop
    \/ LoopTimed
    \/ RetTimed
    \/ RetAppend
    \/ \E s \in Records : ReturnServerSessionNoLock(s)

SpecConc == Init /\ [][NextConc]_vars

\* ================================================================== claims
EndOps == {"end_session", "_end_session_no_lock"}

Active(h) == constructed[h] /\ _server_session[h] # None
Ended(h) == constructed[h] /\ _server_session[h] = None

\* Everything but the record of the last operation.
stateVars == <<now, nextId, last_use, pool, handleVars, checkedOut, returnCalls,
               byReturn, frame>>

\* C1 (idempotent end): over any sequence of end_session() and
\* _end_session(False) calls on a handle, client._return_server_session is
\* invoked exactly once for it, by the first call; a call on a handle that
\* has already ended changes neither the handle nor the pool and does not
\* raise.
C1_IdempotentEnd ==
    [][\A h \in Handles :
          (lastOp'.op \in EndOps /\ lastOp'.h = h) =>
              /\ lastOp'.raised = NoValue
              /\ Active(h) => returnCalls[h] = 0 /\ returnCalls'[h] = 1
              /\ Ended(h) => /\ returnCalls[h] = 1
                             /\ UNCHANGED stateVars]_vars

\* A finalizer-triggered end has run on a handle that had already ended.
C1_Witness ==
    /\ lastOp.op = "_end_session_no_lock"
    /\ lastOp.s = None
    /\ returnCalls[lastOp.h] = 1

\* C2 (no double ownership): a session returned by get_server_session and
\* not yet given back through return_server_session or
\* return_server_session_no_lock is not in the pool.
C2_NoDoubleOwnership == \A s \in checkedOut : s \notin Range(pool)

\* get_server_session has handed out a session taken from a pool that
\* still holds others.
C2_Witness ==
    /\ lastOp.op = "get_server_session"
    /\ ~lastOp.minted
    /\ lastOp.ret \in checkedOut
    /\ pool # <<>>

\* C3 (exclusive ownership): no session is held by two active handles, and
\* no session occurs twice in the pool.
C3_ExclusiveOwnership ==
    /\ \A h1, h2 \in Handles :
           (Active(h1) /\ Active(h2) /\ h1 # h2)
               => _server_session[h1] # _server_session[h2]
    /\ \A i, j \in 1..Len(pool) : i # j => pool[i] # pool[j]

\* One handle has ended twice over while another holds the session the
\* first one gave back.
C3_Witness ==
    \E h1, h2 \in Handles :
        /\ Ended(h1) /\ Active(h2)
        /\ lastOp.op \in EndOps /\ lastOp.h = h1 /\ lastOp.s = None
        /\ nextId = 2
        /\ _server_session[h2] = 1

\* C4 (post-end access fails): on an ended handle session_id and
\* _use_lsid raise InvalidOperation and change nothing, has_ended returns
\* True, client and options return without error the values the handle was
\* created with, which no step changes.
C4_PostEndAccess ==
    [][\A h \in Handles :
          /\ constructed[h] =>
                 /\ _client'[h] = _client[h] /\ _client[h] = TheClient
                 /\ _options'[h] = _options[h]
          /\ (Ended(h) /\ lastOp'.h = h) =>
                 /\ lastOp'.op \in {"session_id", "_use_lsid"} =>
                        /\ lastOp'.raised = InvalidOperation
                        /\ UNCHANGED stateVars
                 /\ lastOp'.op = "has_ended" =>
                        lastOp'.ret = TRUE /\ lastOp'.raised = NoValue
                 /\ lastOp'.op = "client" =>
                        lastOp'.ret = _client[h] /\ lastOp'.raised = NoValue
                 /\ lastOp'.op = "options" =>
                        lastOp'.ret = _options[h] /\ lastOp'.raised = NoValue]_vars

\* _use_lsid has raised on an ended handle whose session is in the pool.
C4_Witness ==
    /\ lastOp.op = "_use_lsid"
    /\ lastOp.raised = InvalidOperation
    /\ Ended(lastOp.h)
    /\ pool # <<>>

\* C5 (ended is terminal): a handle starts with has_ended false, and once
\* has_ended is true it is true after every later step; an ended handle is
\* never given a session again.
C5_EndedTerminal ==
    [][\A h \in Handles :
          /\ (~constructed[h] /\ constructed'[h]) => ~has_ended(h)'
          /\ (constructed[h] /\ has_ended(h)) =>
                 /\ constructed'[h]
                 /\ has_ended(h)'
                 /\ _server_session'[h] = None]_vars

\* After a handle ended, another session was started from the same pool.
C5_Witness ==
    \E h \in Handles :
        /\ Ended(h)
        /\ lastOp.op = "start_session" /\ lastOp.h # h
        /\ ~lastOp.minted

\* Every session of q has timed out for T (so also when q is empty).
AllTimedOut(q, T) == \A i \in 1..Len(q) : timed_out(q[i], T)

\* C6 (fallback minting): get_server_session on an empty pool, or on a pool
\* whose sessions have all timed out for the given timeout, raises nothing
\* and returns a newly created session, one that is none of the sessions
\* created so far and whose last_use is the current time, and leaves the
\* pool empty.
C6_FallbackMinting ==
    [][(lastOp'.op = "get_server_session" /\ AllTimedOut(pool, lastOp'.T)) =>
          /\ lastOp'.raised = NoValue
          /\ lastOp'.minted
          /\ lastOp'.ret \notin 1..(nextId - 1)
          /\ lastOp'.ret \notin Range(pool) \cup checkedOut
          /\ lastOp'.ret \in checkedOut'
          /\ last_use'[lastOp'.ret] = now'
          /\ pool' = <<>>]_vars

\* A session was minted, after the clock's origin, by a get_server_session
\* that found only timed-out sessions in the pool and discarded them.
C6_Witness ==
    /\ lastOp.op = "get_server_session"
    /\ lastOp.minted
    /\ lastOp.dropped >= 2
    /\ now > 0
    /\ pool = <<>>

\* C7 as claimed: for every session_timeout_minutes the session that
\* get_server_session returns has not timed out for that timeout when it is
\* returned.
C7_Original ==
    lastOp.op = "get_server_session" => ~timed_out(lastOp.ret, lastOp.T)

\* C7 (acquire yields a usable session), amended: for every
\* session_timeout_minutes of at least 1 the session that get_server_session
\* returns, taken from the pool or newly created, has not timed out for that
\* timeout at the clock reading of the call.
C7_UsableSession ==
    (lastOp.op = "get_server_session" /\ lastOp.T >= 1)
        => ~timed_out(lastOp.ret, lastOp.T)

\* get_server_session skipped a timed-out session at the left end and
\* returned one from behind it.
C7_Witness ==
    /\ lastOp.op = "get_server_session"
    /\ lastOp.T >= 1
    /\ ~lastOp.minted
    /\ lastOp.front # lastOp.ret
    /\ ~timed_out(lastOp.ret, lastOp.T)

\* The first session of q that has not timed out for T, None without one.
RECURSIVE FirstFresh(_, _)
FirstFresh(q, T) ==
    IF q = <<>> THEN None
    ELSE IF ~timed_out(q[1], T) THEN q[1]
    ELSE FirstFresh(Tail(q), T)

\* C8 (recency ordering): the pool is kept in order of return, the most
\* recently returned session at the left end, and get_server_session
\* returns the most recently returned session among those in the pool that
\* have not timed out.
C8_RecencyOrdering ==
    [][/\ pool' = byReturn'
       /\ (lastOp'.op = "get_server_session" /\ FirstFresh(byReturn, lastOp'.T) # None)
              => lastOp'.ret = FirstFresh(byReturn, lastOp'.T)]_vars

\* Three sessions were given back one after another and get_server_session
\* then handed out the last of them, leaving the other two in order.
C8_Witness ==
    /\ lastOp.op = "get_server_session"
    /\ ~lastOp.minted
    /\ lastOp.dropped = 0
    /\ lastOp.ret = lastOp.front
    /\ Len(pool) = 2
    /\ pool = byReturn

\* The pool is k sessions that have not timed out for T followed by
\* timed-out ones only.
FreshThenStale(q, T, k) ==
    /\ k \in 1..Len(q)
    /\ \A i \in 1..k : ~timed_out(q[i], T)
    /\ \A i \in (k + 1)..Len(q) : timed_out(q[i], T)

\* C9 (sweep correctness): when the pool is k >= 1 sessions that have not
\* timed out followed by m >= 0 timed-out ones, get_server_session removes
\* the m timed-out ones and returns the left end, leaving the other k - 1
\* in their order.
C9_SweepCorrectness ==
    [][\A k \in 1..Len(pool) :
          (lastOp'.op = "get_server_session" /\ FreshThenStale(pool, lastOp'.T, k))
              => /\ lastOp'.ret = pool[1]
                 /\ pool' = SubSeq(pool, 2, k)
                 /\ lastOp'.dropped = Len(pool) - k]_vars

\* From [fresh, fresh, stale, stale] get_server_session returned the left
\* end and discarded the two on the right: one session stays.
C9_Witness ==
    /\ lastOp.op = "get_server_session"
    /\ ~lastOp.minted
    /\ lastOp.ret = lastOp.front
    /\ lastOp.dropped = 2
    /\ Len(pool) = 1
    /\ ~timed_out(pool[1], lastOp.T)

\* C10 (lock-free return): return_server_session_no_lock raises nothing
\* and leaves the pool as the returned session followed by the previous
\* contents in their order, whatever has timed out.
C10_LockFreeReturn ==
    [][lastOp'.op = "return_server_session_no_lock" =>
          /\ lastOp'.raised = NoValue
          /\ pool' = <<lastOp'.s>> \o pool]_vars

\* A timed-out session was returned lock-free onto a pool of two or more
\* whose right end has timed out too.
C10_Witness ==
    /\ lastOp.op = "return_server_session_no_lock"
    /\ Len(pool) >= 3
    /\ pool[1] = lastOp.s
    /\ timed_out(pool[1], 1)
    /\ timed_out(pool[Len(pool)], 1)

\* The sessions that exist: in the pool or held by a caller.
Live == Range(pool) \cup checkedOut

\* C11 (staleness predicate): a session last used at t0 is timed out for a
\* timeout of T minutes at time t exactly when t lies after
\* t0 + (T - 1) * 60 seconds, so not at that instant and not before it; the
\* clock is read anew by each call, so a timed-out session stays timed out
\* for as long as use_lsid is not applied to it.
C11_StalenessPredicate ==
    [][\A s \in Live, T \in Timeouts :
          /\ timed_out(s, T) <=> now > last_use[s] + 60 * T - 60
          /\ (now < last_use[s] + (T - 1) * 60) => ~timed_out(s, T)
          /\ (now = last_use[s] + (T - 1) * 60) => ~timed_out(s, T)
          /\ (/\ timed_out(s, T)
              /\ s \in Live'
              /\ ~(lastOp'.op = "use_lsid" /\ lastOp'.s = s))
                 => timed_out(s, T)']_vars

\* A pooled session sits exactly at the threshold of a two-minute timeout
\* (not timed out) and is past that of a one-minute timeout.
C11_Witness ==
    \E s \in Range(pool) :
        /\ now - last_use[s] = 60
        /\ ~timed_out(s, 2)
        /\ timed_out(s, 1)
        /\ lastOp.op = "tick"

LockedOps == {"get_server_session", "return_server_session"}

\* C13 as claimed: right after a locked get_server_session or
\* return_server_session with timeout T, no session left in the pool is
\* timed out for T.
C13_NoStaleAfterLockedOp ==
    lastOp.op \in LockedOps =>
        \A i \in 1..Len(pool) : ~timed_out(pool[i], lastOp.T)

\* The index of the last session of q that has not timed out for T, 0 when
\* all have.
LastFresh(q, T) ==
    LET fresh == {i \in 1..Len(q) : ~timed_out(q[i], T)}
    IN IF fresh = {} THEN 0 ELSE CHOOSE i \in fresh : \A j \in fresh : j <= i

\* q without its trailing timed-out sessions.
Swept(q, T) == SubSeq(q, 1, LastFresh(q, T))

\* C14 (locked release): return_server_session(s, T) removes the trailing
\* timed-out sessions of the pool and then leaves s out when s is timed out
\* for T, and otherwise puts s at the left end with the survivors behind it
\* in their order; the length changes by (1 if s is not timed out, else 0)
\* minus the number of trailing sessions removed.
C14_LockedRelease ==
    [][lastOp'.op = "return_server_session" =>
          LET s == lastOp'.s
              T == lastOp'.T
              removed == Len(pool) - LastFresh(pool, T)
          IN /\ pool' = IF timed_out(s, T) THEN Swept(pool, T)
                        ELSE <<s>> \o Swept(pool, T)
             /\ Len(pool') - Len(pool) =
                    (IF timed_out(s, T) THEN 0 ELSE 1) - removed
             /\ lastOp'.dropped = removed]_vars

\* A locked release swept a timed-out right end and put the returned
\* session in front of a survivor.
C14_Witness ==
    /\ lastOp.op = "return_server_session"
    /\ lastOp.dropped >= 1
    /\ Len(pool) >= 2
    /\ pool[1] = lastOp.s

C17_LastUseMonotone ==
    [][/\ now' >= now
       /\ \A s \in Live \cap Live' : last_use'[s] >= last_use[s]]_vars

\* use_lsid has raised the last_use of a held session.
C17_Witness ==
    /\ lastOp.op = "use_lsid"
    /\ lastOp.s \in checkedOut
    /\ now > 0
    /\ last_use[lastOp.s] = now

\* The sessions of q that are in set S, in q's order.
Restrict(q, S) == SelectSeq(q, LAMBDA r : r \in S)

\* C20 (only stale sessions are discarded): a session that leaves the pool
\* without being returned by get_server_session, and a session that
\* return_server_session does not insert, was timed out for the timeout of
\* that call; no other step removes a session; the sessions that stay keep
\* their relative order.
C20_OnlyStaleDiscarded ==
    [][/\ \A r \in Range(pool) \ Range(pool') :
              \/ lastOp'.op = "get_server_session" /\ lastOp'.ret = r
              \/ lastOp'.op \in LockedOps /\ timed_out(r, lastOp'.T)
       /\ (lastOp'.op = "return_server_session" /\ lastOp'.s \notin Range(pool'))
              => timed_out(lastOp'.s, lastOp'.T)
       /\ Restrict(pool', Range(pool)) = Restrict(pool, Range(pool'))]_vars

\* A locked release discarded timed-out sessions on the right and kept two
\* that had not timed out behind the session it inserted.
C20_Witness ==
    /\ lastOp.op = "return_server_session"
    /\ lastOp.dropped >= 1
    /\ Len(pool) >= 3
    /\ pool[1] = lastOp.s
    /\ \A i \in 1..Len(pool) : ~timed_out(pool[i], lastOp.T)

\* The pool after the locked release of s with timeout T.
LockedResult(q, s, T) ==
    IF timed_out(s, T) THEN Swept(q, T) ELSE <<s>> \o Swept(q, T)

\* C12 (scoped acquisition): leaving the with-block, normally or by an
\* exception, ends the handle and gives its session back through the locked
\* path, once in all, also when end_session() was called inside the block;
\* an exception raised in the block is not suppressed.
C12_ScopedAcquisition ==
    [][\A h \in Handles :
          (lastOp'.op = "__exit__" /\ lastOp'.h = h) =>
              /\ has_ended(h)'
              /\ returnCalls'[h] = 1
              /\ Active(h) =>
                     /\ lastOp'.lock = TRUE
                     /\ pool' = LockedResult(pool, _server_session[h], lastOp'.T)
              /\ Ended(h) => pool' = pool /\ returnCalls[h] = 1
              /\ lastOp'.raised = lastOp'.exc]_vars

\* A with-block in which end_session() had been called was left by an
\* exception, which propagated.
C12_Witness ==
    /\ lastOp.op = "__exit__"
    /\ lastOp.s = None
    /\ lastOp.exc = "Exception"
    /\ lastOp.raised = "Exception"
    /\ returnCalls[lastOp.h] = 1
    /\ scope[lastOp.h] = "exited"

\* C16 (_use_lsid is the sole refresh channel): on an active handle
\* _use_lsid sets the last_use of the held session to the current time and
\* returns its session_id, the same from __init__ to the end; no other
\* handle or pool operation changes the last_use of an existing session.
C16_SoleRefreshChannel ==
    [][/\ \A h \in Handles :
          /\ (Active(h) /\ Active(h)') => _server_session'[h] = _server_session[h]
          /\ (lastOp'.op = "_use_lsid" /\ lastOp'.h = h /\ Active(h)) =>
                 /\ lastOp'.raised = NoValue
                 /\ lastOp'.ret = [id |-> _server_session[h]]
                 /\ last_use'[_server_session[h]] = now'
                 /\ \A s \in Live \ {_server_session[h]} :
                        last_use'[s] = last_use[s]
       /\ lastOp'.op # "_use_lsid" =>
              \A s \in Live \cap Live' : last_use'[s] = last_use[s]]_vars

\* _use_lsid refreshed the session of one handle a minute after it was
\* created, while the session of another handle kept its last_use.
C16_Witness ==
    \E h1, h2 \in Handles :
        /\ lastOp.op = "_use_lsid" /\ lastOp.h = h1 /\ lastOp.raised = NoValue
        /\ Active(h1) /\ Active(h2) /\ h1 # h2
        /\ last_use[_server_session[h1]] = now
        /\ last_use[_server_session[h2]] < now

\* C18 (end path selection): end_session() on an active handle hands the
\* session to the client with lock = True, so that it goes through the
\* sweep and the timed_out test; the finalizer's end hands it over with
\* lock = False, so that it is put at the left end whatever has timed out.
\* Either way the handle's reference becomes None and the handle has ended.
C18_EndPathSelection ==
    [][\A h \in Handles :
          (lastOp'.op \in EndOps /\ lastOp'.h = h /\ Active(h)) =>
              /\ lastOp'.op = "end_session" =>
                     /\ lastOp'.lock = TRUE
                     /\ pool' = LockedResult(pool, _server_session[h], lastOp'.T)
              /\ lastOp'.op = "_end_session_no_lock" =>
                     /\ lastOp'.lock = FALSE
                     /\ pool' = <<_server_session[h]>> \o pool
              /\ _server_session'[h] = None
              /\ Ended(h)']_vars

\* end_session() left a timed-out session out of a pool that kept another.
C18_Witness ==
    /\ lastOp.op = "end_session"
    /\ lastOp.lock
    /\ lastOp.s # None
    /\ lastOp.s \notin Range(pool)
    /\ pool # <<>>
    /\ Ended(lastOp.h)

\* The sessions that exist while an operation is under way.
Present == Range(pool) \cup checkedOut \cup InFlight

\* C19 (lock-free return under interleaving): with
\* return_server_session_no_lock running between the single deque steps of
\* a locked get_server_session or return_server_session, and between one
\* another, no session is duplicated (each is in the pool once, or held by
\* one caller, or in the hand of the locked operation) and none is lost: a
\* session disappears only while timed out for the timeout of the locked
\* operation, so the sweep removes no session that has not timed out.
C19_LockFreeInterleaving ==
    [][/\ \A i, j \in 1..Len(pool') : i # j => pool'[i] # pool'[j]
       /\ Range(pool') \cap checkedOut' = {}
       /\ InFlight' \cap (Range(pool') \cup checkedOut') = {}
       /\ \A r \in Present \ Present' : timed_out(r, th.T)
       /\ lastOp'.op = "return_server_session_no_lock" =>
              pool' = <<lastOp'.s>> \o pool]_vars

\* A finalizer returned a session between the timed_out test of the right
\* end and the pop that follows it.
C19_Witness ==
    /\ lastOp.op = "return_server_session_no_lock"
    /\ th.pc = "cs_pop"
    /\ Len(pool) >= 2
    /\ ~timed_out(pool[1], th.T)

TypeOK ==
    /\ now \in 0..(MaxTicks * TickSeconds)
    /\ nextId \in 1..(MaxRecords + 1)
    /\ pool \in Seq(Records)
    /\ checkedOut \subseteq Records
====
